---- MODULE Spec2Model ----
(***************************************************************************)
(* Model of the NewsNewt scraper service: the /scrape route (app/routes.py),*)
(* the crawler request handler (app/crawler.py) and the processing loop     *)
(* task run_crawler.  All coroutines run on one asyncio event loop, so an   *)
(* action is the code between two suspension points (await).               *)
(***************************************************************************)
EXTENDS Integers, Sequences, FiniteSets, TLC

\* Number of scrape calls (one correlation id, one work unit each).
NumCalls == 2

\* crawler.py:244  PlaywrightCrawler(max_request_retries=1)
max_request_retries == 1

\* config.py:15  ENABLE_STEALTH defaults to "true"
enable_stealth == TRUE

Ids == 1..NumCalls

VARIABLES
    pc,                  \* position of each scrape() coroutine
    pending_requests,    \* app.state.pending_requests: set of registered ids
    future,              \* the asyncio.Future created for each id
    requests_to_results, \* app.state.requests_to_results
    crawler_running,     \* app.state.crawler_running
    crawler_task,        \* app.state.crawler_task: index into tasks, 0 = None
    tasks,               \* every run_crawler task ever created, with its state
    queue,               \* the crawler's request queue (correlation ids)
    hpc,                 \* position of request_handler for each work unit
    retries,             \* crawlee's retry_count of each work unit
    response,            \* what the caller of scrape() received
    url,                 \* request.url of each scrape call
    unique_keys,         \* the unique keys the crawler's queue has taken
    shutdown,            \* how the shutdown part of lifespan() ended
    timeout_ms,          \* request.timeout_ms of one scrape call
    timeout,             \* the deadline scrape() computes from it
    reported,            \* status and meta.duration_ms of that call's response
    selectors,           \* extract_with_fallbacks: the selectors argument
    xpc,                 \* extract_with_fallbacks: position
    field_no,            \* which entry of selectors the loop is at
    idx,                 \* which fallback selector the inner loop is at
    value,               \* the local variable value
    reads,               \* per field, the selectors read so far and whether
                         \* the read gave non-blank text
    selector_failed,     \* whether a selector operation has raised
    data,                \* the dict that is returned
    now,                 \* RateLimiter: the clock (datetime.now, loop timer)
    min_interval,        \* RateLimiter.min_interval
    last_request_time,   \* RateLimiter.last_request_time
    lock_holder,         \* RateLimiter._lock: the caller holding it, 0 = free
    lock_waiters,        \* RateLimiter._lock: callers queued in acquire()
    lpc,                 \* position of each wait_if_needed() coroutine
    wake_at,             \* when the asyncio.sleep of a caller is due
    granted_at,          \* when each wait_if_needed() call returned
    observed,            \* what each caller read and decided at lines 28-32
    settings,            \* newsnewt.config.settings
    article_request,     \* the ArticleRequest of one POST /article call
    apc,                 \* position of archive_and_extract_article
    calls,               \* the functions the handler has called, in order
    archive_service,     \* the handler's local archive_service
    took,                \* what the two steps of archive_url did: how long
                         \* they took and what the creation gave back
    raised,              \* the exception the handler's try block caught
    archive_result,      \* how archive_url ended
    http_response,       \* status and error code of the HTTP answer
    validated,           \* whether settings.validate() has run, and how
    requested_service,   \* resolve_archive_service: the argument
    resolved             \* resolve_archive_service: the value returned

scrapeVars == <<pc, pending_requests, future, requests_to_results,
                crawler_running, crawler_task, tasks, queue, hpc, retries,
                response, url, unique_keys, shutdown>>
deadlineVars == <<timeout_ms, timeout, reported>>
extractVars == <<selectors, xpc, field_no, idx, value, reads, selector_failed,
                 data>>

limiterVars == <<now, min_interval, last_request_time, lock_holder,
                 lock_waiters, lpc, wake_at, granted_at, observed>>
articleVars == <<settings, article_request, apc, calls, archive_service,
                 took, raised, archive_result, http_response>>
resolveVars == <<validated, requested_service, resolved>>
newsnewtVars == <<limiterVars, articleVars, resolveVars>>

vars == <<scrapeVars, deadlineVars, extractVars, newsnewtVars>>

callVars == <<pc, response>>
bookVars == <<pending_requests, future, requests_to_results>>
loopVars == <<crawler_running, crawler_task, tasks>>
unitVars == <<hpc, retries>>
keyVars == <<url, unique_keys>>

----------------------------------------------------------------------------
\* Values

\* A result or response records whose it is (rid), meta.status, meta.error_type
\* and the other keys its meta dict carries (meta_keys).
NoResult == [rid |-> 0, status |-> 0, error_type |-> "none", meta_keys |-> {}]

NoResponse ==
    [http |-> 0, status |-> 0, error_type |-> "none", meta_keys |-> {}, rid |-> 0]

\* asyncio.Future(): pending, no result
NewFuture == [state |-> "pending", result |-> NoResult]

\* crawler.py:131-138  result of a successful run
SuccessResult(i) ==
    [rid |-> i, status |-> 200, error_type |-> "none",
     meta_keys |-> {"duration_ms"}]

\* Exceptions the try block of request_handler can see, and whether str(e)
\* contains "CAPTCHA": the ValueError of crawler.py:104 does, and so does any
\* other exception whose message happens to hold that text.
HasCaptchaText(e) == e \in {"ValueError_CAPTCHA", "LoadError_CAPTCHA"}

\* crawler.py:147
ErrorType(e) == IF HasCaptchaText(e) THEN "captcha_detected" ELSE "scraping_error"

\* crawler.py:159-168
ErrorResult(i, e) ==
    [rid |-> i,
     status |-> IF ErrorType(e) = "captcha_detected" THEN 422 ELSE 500,
     error_type |-> ErrorType(e),
     meta_keys |-> {"duration_ms", "error_message"}]

\* Units the engine still has in hand (handler running or its failure not yet
\* processed by the engine).
RaisedStates == {"raised_StealthError", "raised_InvalidStateError"}

InFlightStates ==
    {"stealth", "load", "popups", "captcha", "captcha_found", "extract"}
        \cup RaisedStates

InFlight == {i \in Ids : hpc[i] \in InFlightStates}

\* asyncio.Task.done(): the task returned, was cancelled ("done") or ended
\* with the exception crawler.run() raised ("failed")
TaskDone(st) == st \in {"done", "failed"}

ActiveTasks == {t \in 1..Len(tasks) : ~TaskDone(tasks[t])}

\* The ids of the units in the crawler's queue
Queued == {queue[k] : k \in 1..Len(queue)}

\* The tasks that still run; a finished task that app.state.crawler_task no
\* longer refers to has no behaviour left and is not kept.
LiveTasks == SelectSeq(tasks, LAMBDA st : ~TaskDone(st))

----------------------------------------------------------------------------
\* main.py:73-76  the state lifespan() sets up
ScrapeStart ==
    /\ pc = [i \in Ids |-> "idle"]
    /\ pending_requests = {}
    /\ future = [i \in Ids |-> NewFuture]
    /\ requests_to_results = [i \in Ids |-> NoResult]
    /\ crawler_running = FALSE
    /\ crawler_task = 0
    /\ tasks = <<>>
    /\ queue = <<>>
    /\ hpc = [i \in Ids |-> "none"]
    /\ retries = [i \in Ids |-> 0]
    /\ response = [i \in Ids |-> NoResponse]
    /\ unique_keys = {}
    /\ shutdown = "none"

\* Scrape calls for pairwise different URLs
ScrapeInit ==
    /\ ScrapeStart
    /\ url = [i \in Ids |-> i]

----------------------------------------------------------------------------
\* scrape(): routes.py

\* routes.py:37-58 up to the await of add_requests: register the future.
RegisterNothing(i) ==
    /\ pc[i] = "idle"
    /\ pc' = [pc EXCEPT ![i] = "adding"]
    /\ UNCHANGED <<bookVars, loopVars, queue, unitVars, response>>

Register(i) ==
    /\ pc[i] = "idle"
    /\ pc' = [pc EXCEPT ![i] = "adding"]
    /\ pending_requests' = pending_requests \cup {i}
    /\ future' = [future EXCEPT ![i] = NewFuture]
    /\ UNCHANGED <<requests_to_results, loopVars, queue, unitVars, response>>

\* routes.py:57-58  Request.from_url(request.url, user_data=...) gives the
\* request the unique key that crawlee derives from its URL (no unique_key, no
\* always_enqueue argument); crawler.add_requests puts the work unit into the
\* queue, behind the units already there (no forefront argument), unless the
\* queue has taken a request with that unique key before.
AddRequestsAtFront(i) ==
    /\ pc[i] = "adding"
    /\ queue' = IF url[i] \in unique_keys THEN queue ELSE <<i>> \o queue
    /\ unique_keys' = unique_keys \cup {url[i]}
    /\ pc' = [pc EXCEPT ![i] = "added"]
    /\ UNCHANGED <<bookVars, loopVars, unitVars, response>>

AddRequests(i) ==
    /\ pc[i] = "adding"
    /\ queue' = IF url[i] \in unique_keys THEN queue ELSE Append(queue, i)
    /\ unique_keys' = unique_keys \cup {url[i]}
    /\ pc' = [pc EXCEPT ![i] = "added"]
    /\ UNCHANGED <<bookVars, loopVars, unitVars, response>>

\* routes.py:61-63  the start condition
ShouldStartNoDoneCheck ==
    \/ ~crawler_running
    \/ crawler_task # 0

ShouldStart ==
    \/ ~crawler_running
    \/ (crawler_task # 0 /\ TaskDone(tasks[crawler_task]))

\* routes.py:61-79  start decision; no await between the test, the flag write
\* and create_task.  The call then reaches wait_for (after asyncio.sleep(0.1)
\* when it started the task; the pause changes no state).
EnsureRunningByFlagOnly(i) ==
    /\ pc[i] = "added"
    /\ IF ~crawler_running
       THEN /\ crawler_running' = TRUE
            /\ tasks' = Append(LiveTasks, "created")
            /\ crawler_task' = Len(LiveTasks) + 1
            /\ pc' = [pc EXCEPT ![i] = "waiting"]
       ELSE /\ pc' = [pc EXCEPT ![i] = "waiting"]
            /\ UNCHANGED loopVars
    /\ UNCHANGED <<bookVars, queue, unitVars, response>>

EnsureRunning(i) ==
    /\ pc[i] = "added"
    /\ IF ShouldStart
       THEN /\ crawler_running' = TRUE
            /\ tasks' = Append(LiveTasks, "created")
            /\ crawler_task' = Len(LiveTasks) + 1
            /\ pc' = [pc EXCEPT ![i] = "waiting"]
       ELSE /\ pc' = [pc EXCEPT ![i] = "waiting"]
            /\ UNCHANGED loopVars
    /\ UNCHANGED <<bookVars, queue, unitVars, response>>

\* routes.py:86-98  the HTTPException raised on timeout
TimeoutResponseAs500(i) ==
    [http |-> 500, status |-> 500, error_type |-> "scraping_error",
     meta_keys |-> {"duration_ms", "error_message"}, rid |-> i]

TimeoutResponse(i) ==
    [http |-> 408, status |-> 408, error_type |-> "timeout",
     meta_keys |-> {"duration_ms", "error_message"}, rid |-> i]

\* routes.py:105-117  the response built from the future's result:
\* HTTPException(status_code=meta.status, detail=result) when the result has
\* an error_type, ScrapeResponse(**result) with HTTP 200 otherwise
ResultResponseAlways500(r) ==
    [http |-> IF r.error_type # "none" THEN 500 ELSE 200,
     status |-> r.status, error_type |-> r.error_type,
     meta_keys |-> r.meta_keys, rid |-> r.rid]

ResultResponse(r) ==
    [http |-> IF r.error_type # "none" THEN r.status ELSE 200,
     status |-> r.status, error_type |-> r.error_type,
     meta_keys |-> r.meta_keys, rid |-> r.rid]

\* routes.py:99-103  the finally block
CleanupKeepsResult(i) ==
    /\ pending_requests' = pending_requests \ {i}
    /\ requests_to_results' = requests_to_results

Cleanup(i) ==
    /\ pending_requests' = pending_requests \ {i}
    /\ requests_to_results' = [requests_to_results EXCEPT ![i] = NoResult]

\* routes.py:81  the deadline of wait_for elapses while the future is pending:
\* wait_for cancels the future; the waiting coroutine resumes in a later step.
TimeoutAbortsHandler(i) ==
    /\ pc[i] = "waiting"
    /\ future[i].state = "pending"
    /\ future' = [future EXCEPT ![i].state = "cancelled"]
    /\ pc' = [pc EXCEPT ![i] = "timedout"]
    /\ hpc' = [hpc EXCEPT ![i] = IF hpc[i] \in InFlightStates THEN "failed" ELSE @]
    /\ UNCHANGED <<pending_requests, requests_to_results, loopVars, queue,
                   retries, response>>

Timeout(i) ==
    /\ pc[i] = "waiting"
    /\ future[i].state = "pending"
    /\ future' = [future EXCEPT ![i].state = "cancelled"]
    /\ pc' = [pc EXCEPT ![i] = "timedout"]
    /\ UNCHANGED <<pending_requests, requests_to_results, loopVars, queue,
                   unitVars, response>>

\* routes.py:82-103  the coroutine resumes with TimeoutError
WaiterTimedOut(i) ==
    /\ pc[i] = "timedout"
    /\ Cleanup(i)
    /\ response' = [response EXCEPT ![i] = TimeoutResponse(i)]
    /\ pc' = [pc EXCEPT ![i] = "done"]
    /\ UNCHANGED <<future, loopVars, queue, unitVars>>

\* routes.py:81, 99-117  wait_for returns the future's result
WaiterReturns(i) ==
    /\ pc[i] = "waiting"
    /\ future[i].state = "resolved"
    /\ Cleanup(i)
    /\ response' = [response EXCEPT ![i] = ResultResponse(future[i].result)]
    /\ pc' = [pc EXCEPT ![i] = "done"]
    /\ UNCHANGED <<future, loopVars, queue, unitVars>>

----------------------------------------------------------------------------
\* run_crawler task: routes.py:68-74

\* the task created by create_task gets its first step: await crawler.run()
LoopBegin(t) ==
    /\ t \in 1..Len(tasks)
    /\ tasks[t] = "created"
    /\ tasks' = [tasks EXCEPT ![t] = "running"]
    /\ UNCHANGED <<callVars, bookVars, crawler_running, crawler_task, queue,
                   unitVars>>

\* crawler.run() finds nothing queued and nothing in flight, and winds down
LoopDrainedWithQueued(t) ==
    /\ t \in 1..Len(tasks)
    /\ tasks[t] = "running"
    /\ InFlight = {}
    /\ tasks' = [tasks EXCEPT ![t] = "exiting"]
    /\ UNCHANGED <<callVars, bookVars, crawler_running, crawler_task, queue,
                   unitVars>>

LoopDrained(t) ==
    /\ t \in 1..Len(tasks)
    /\ tasks[t] = "running"
    /\ queue = <<>>
    /\ InFlight = {}
    /\ tasks' = [tasks EXCEPT ![t] = "exiting"]
    /\ UNCHANGED <<callVars, bookVars, crawler_running, crawler_task, queue,
                   unitVars>>

\* routes.py:71-72  crawler.run() returns; finally clears the flag; task done
LoopExit(t) ==
    /\ t \in 1..Len(tasks)
    /\ tasks[t] = "exiting"
    /\ tasks' = [tasks EXCEPT ![t] = "done"]
    /\ crawler_running' = FALSE
    /\ UNCHANGED <<callVars, bookVars, crawler_task, queue, unitVars>>

----------------------------------------------------------------------------
\* Failures around the loop: routes.py:57-76, main.py:230-237

\* routes.py:57-58  Request.from_url or add_requests raises, or the call is
\* cancelled while it awaits add_requests: the exception leaves scrape()
\* above the try block of line 80
AddRequestsRaises(i) ==
    /\ pc[i] = "adding"
    /\ pc' = [pc EXCEPT ![i] = "aborted"]
    /\ UNCHANGED <<bookVars, loopVars, queue, unitVars, response>>

\* routes.py:61-76  the call starts the loop and is cancelled during
\* asyncio.sleep(0.1), again above the try block
CancelledInPause(i) ==
    /\ pc[i] = "added"
    /\ ShouldStart
    /\ crawler_running' = TRUE
    /\ tasks' = Append(LiveTasks, "created")
    /\ crawler_task' = Len(LiveTasks) + 1
    /\ pc' = [pc EXCEPT ![i] = "aborted"]
    /\ UNCHANGED <<bookVars, queue, unitVars, response>>

\* routes.py:68-72  crawler.run() raises between two handler runs; the
\* finally block clears the flag and the task is done
LoopCrashes(t) ==
    /\ t \in 1..Len(tasks)
    /\ tasks[t] = "running"
    /\ InFlight = {}
    /\ tasks' = [tasks EXCEPT ![t] = "failed"]
    /\ crawler_running' = FALSE
    /\ UNCHANGED <<callVars, bookVars, crawler_task, queue, unitVars>>

\* main.py:230-237  crawler_task.cancel() and the await of the task.  A task
\* that has not had its first step ends without entering the try block of
\* run_crawler, so its finally block does not run; a task inside
\* crawler.run() gets CancelledError there and runs the finally block.
CancelCrawlerTask ==
    /\ crawler_task # 0
    /\ ~TaskDone(tasks[crawler_task])
    /\ tasks[crawler_task] # "created" => InFlight = {}
    /\ tasks' = [tasks EXCEPT ![crawler_task] = "done"]
    /\ crawler_running' =
          IF tasks[crawler_task] = "created" THEN crawler_running ELSE FALSE
    /\ UNCHANGED <<callVars, bookVars, crawler_task, queue, unitVars>>

\* main.py:230-237  the part of lifespan() after the yield: with a task in
\* app.state.crawler_task, cancel() and then await the task.  cancel() does
\* nothing to a task that is done; the await of a task that was cancelled
\* raises CancelledError, which is caught, the await of a task that returned
\* gives None, and the await of a task that ended with an exception raises
\* that exception, which nothing catches.
Shutdown ==
    /\ shutdown = "none"
    /\ IF crawler_task = 0
       THEN /\ shutdown' = "completed"
            /\ UNCHANGED <<tasks, crawler_running>>
       ELSE IF TaskDone(tasks[crawler_task])
       THEN /\ shutdown' = IF tasks[crawler_task] = "failed"
                           THEN "raised" ELSE "completed"
            /\ UNCHANGED <<tasks, crawler_running>>
       ELSE /\ shutdown' = "completed"
            /\ tasks' = [tasks EXCEPT ![crawler_task] = "done"]
            /\ crawler_running' =
                  IF tasks[crawler_task] = "created"
                  THEN crawler_running ELSE FALSE
    /\ UNCHANGED <<callVars, bookVars, crawler_task, queue, unitVars>>

----------------------------------------------------------------------------
\* the crawler engine and request_handler: crawler.py

\* the running loop takes the oldest queued unit and invokes request_handler
\* (crawler.py:64-76: request_id is set, so the handler goes on to stealth)
Dispatch(i) ==
    /\ \E t \in 1..Len(tasks) : tasks[t] = "running"
    /\ queue # <<>>
    /\ i = Head(queue)
    /\ queue' = Tail(queue)
    /\ hpc' = [hpc EXCEPT ![i] = IF enable_stealth THEN "stealth" ELSE "load"]
    /\ UNCHANGED <<callVars, bookVars, loopVars, retries>>

\* crawler.py:76-87  stealth_async runs outside the try block of the pipeline;
\* only ImportError is caught.
Stealth(i, outcome) ==
    /\ hpc[i] = "stealth"
    /\ hpc' = [hpc EXCEPT ![i] = IF outcome \in {"ok", "ImportError"}
                                  THEN "load" ELSE "raised_StealthError"]
    /\ UNCHANGED <<callVars, bookVars, loopVars, queue, retries>>

\* crawler.py:143, 173  Future.set_result on a pending future
SetResultAll(f, i, r) ==
    [j \in Ids |-> IF f[j].state = "pending"
                   THEN [state |-> "resolved", result |-> r]
                   ELSE f[j]]

SetResult(f, i, r) == [f EXCEPT ![i] = [state |-> "resolved", result |-> r]]

\* crawler.py:145-173  the except block, entered with exception e: the error
\* result is stored (overwriting what the try block stored); set_result on a
\* future that is already done raises InvalidStateError, which leaves the
\* handler.
ExceptBlockPops(i, e) ==
    LET r == ErrorResult(i, e) IN
    /\ requests_to_results' = [requests_to_results EXCEPT ![i] = r]
    /\ future' = IF i \in pending_requests /\ future[i].state = "pending"
                 THEN SetResult(future, i, r) ELSE future
    /\ pending_requests' = pending_requests \ {i}
    /\ hpc' = [hpc EXCEPT ![i] = "returned"]
    /\ UNCHANGED <<callVars, loopVars, queue, retries>>

ExceptBlock(i, e) ==
    LET r == ErrorResult(i, e) IN
    /\ requests_to_results' = [requests_to_results EXCEPT ![i] = r]
    /\ IF i \in pending_requests /\ future[i].state # "pending"
       THEN /\ future' = future
            /\ hpc' = [hpc EXCEPT ![i] = "raised_InvalidStateError"]
       ELSE /\ future' = IF i \in pending_requests
                         THEN SetResult(future, i, r) ELSE future
            /\ hpc' = [hpc EXCEPT ![i] = "returned"]
    /\ UNCHANGED <<callVars, pending_requests, loopVars, queue, retries>>

\* crawler.py:119-143  the rest of the try block after extraction; set_result
\* on a done future raises InvalidStateError inside the try block.
SuccessBlock(i) ==
    IF i \in pending_requests /\ future[i].state # "pending"
    THEN ExceptBlock(i, "InvalidStateError")
    ELSE /\ requests_to_results' =
                [requests_to_results EXCEPT ![i] = SuccessResult(i)]
         /\ future' = IF i \in pending_requests
                      THEN SetResult(future, i, SuccessResult(i)) ELSE future
         /\ hpc' = [hpc EXCEPT ![i] = "returned"]
         /\ UNCHANGED <<callVars, pending_requests, loopVars, queue, retries>>

\* crawler.py:94  page.wait_for_load_state: returns, or raises an exception
\* whose message does or does not contain "CAPTCHA"
LoadOutcomes == {"ok", "LoadError", "LoadError_CAPTCHA"}

Load(i, outcome) ==
    /\ hpc[i] = "load"
    /\ IF outcome = "ok"
       THEN /\ hpc' = [hpc EXCEPT ![i] = "popups"]
            /\ UNCHANGED <<callVars, bookVars, loopVars, queue, retries>>
       ELSE ExceptBlock(i, outcome)

\* crawler.py:99  dismiss_popups swallows every Exception (extraction.py:11-113)
Popups(i) ==
    /\ hpc[i] = "popups"
    /\ hpc' = [hpc EXCEPT ![i] = "captcha"]
    /\ UNCHANGED <<callVars, bookVars, loopVars, queue, retries>>

\* crawler.py:103  detect_captcha swallows every Exception and returns a bool
\* (extraction.py:255-373)
Captcha(i, detected) ==
    /\ hpc[i] = "captcha"
    /\ hpc' = [hpc EXCEPT ![i] = IF detected THEN "captcha_found" ELSE "extract"]
    /\ UNCHANGED <<callVars, bookVars, loopVars, queue, retries>>

\* crawler.py:104  raise ValueError("CAPTCHA detected on page"), caught by the
\* except block
RaiseCaptchaIgnored(i) ==
    /\ hpc[i] = "captcha_found"
    /\ hpc' = [hpc EXCEPT ![i] = "extract"]
    /\ UNCHANGED <<callVars, bookVars, loopVars, queue, retries>>

RaiseCaptcha(i) ==
    /\ hpc[i] = "captcha_found"
    /\ ExceptBlock(i, "ValueError_CAPTCHA")

\* crawler.py:118-143  extract_with_fallbacks returns, result stored, resolved
Extract(i) ==
    /\ hpc[i] = "extract"
    /\ SuccessBlock(i)

\* crawler.py:241-246  an exception that left the handler: the engine retries
\* the unit max_request_retries times, then gives it up.
HandlerFailed(i) ==
    /\ hpc[i] \in RaisedStates
    /\ IF retries[i] < max_request_retries
       THEN /\ retries' = [retries EXCEPT ![i] = @ + 1]
            /\ queue' = Append(queue, i)
            /\ hpc' = [hpc EXCEPT ![i] = "none"]
       ELSE /\ hpc' = [hpc EXCEPT ![i] = "failed"]
            /\ UNCHANGED <<retries, queue>>
    /\ UNCHANGED <<callVars, bookVars, loopVars>>

----------------------------------------------------------------------------
\* The deadline of a scrape call: routes.py:39

\* Largest magnitude of the small timeout_ms values that are tried
MaxTimeoutMs == 50

\* routes.py:39  the 30.0 seconds used when request.timeout_ms is false
DefaultTimeoutMs == 30000

\* models.py:16  timeout_ms: int | None = None
NoTimeoutMs == [given |-> FALSE, ms |-> 0]

TimeoutMsValues ==
    {NoTimeoutMs} \cup
    {[given |-> TRUE, ms |-> v] :
        v \in (-MaxTimeoutMs..MaxTimeoutMs)
                \cup {-1001, 1001, DefaultTimeoutMs, 2 * DefaultTimeoutMs}}

\* Python truth value of request.timeout_ms: None and 0 are false
TruthyMs(t) == t.given /\ t.ms # 0

\* routes.py:39  timeout = (request.timeout_ms / 1000) if request.timeout_ms
\* else 30.0.  The seconds are kept in milliseconds.
TimeoutOf(t) == IF TruthyMs(t) THEN t.ms ELSE DefaultTimeoutMs

NoTimeout == [set |-> FALSE, ms |-> 0]

NoReport == [set |-> FALSE, status |-> 0, duration_ms |-> 0]

\* routes.py:92  int(timeout * 1000) for timeout = ms / 1000 in binary
\* floating point: truncation toward zero gives ms back for every ms up to
\* 1000 in magnitude and for the two defaults, and one less in magnitude for
\* the odd values from 1001 to 1023
ReportedMs(ms) ==
    IF ms \in 1001..1023 /\ ms % 2 = 1 THEN ms - 1
    ELSE IF -ms \in 1001..1023 /\ (-ms) % 2 = 1 THEN ms + 1
    ELSE ms

\* crawler.py:121, 146  the durations a handler run reports
HandlerDurations == {0, 1, MaxTimeoutMs}

DeadlineIdle ==
    /\ timeout_ms = NoTimeoutMs
    /\ timeout = NoTimeout
    /\ reported = NoReport

\* routes.py:39
ComputeTimeout ==
    /\ ~timeout.set
    /\ timeout' = [set |-> TRUE, ms |-> TimeoutOf(timeout_ms)]
    /\ UNCHANGED <<timeout_ms, reported, scrapeVars, extractVars,
                   newsnewtVars>>

\* routes.py:81-98  wait_for gives up (at once when the deadline is not
\* positive, the future being pending) and the 408 carries the deadline as
\* duration
DeadlineExpires ==
    /\ timeout.set
    /\ ~reported.set
    /\ reported' = [set |-> TRUE, status |-> 408,
                    duration_ms |-> ReportedMs(timeout.ms)]
    /\ UNCHANGED <<timeout_ms, timeout, scrapeVars, extractVars,
                   newsnewtVars>>

\* routes.py:81, 105-117  the future is resolved within a positive deadline
\* and the response carries the meta of the handler's result, whose
\* duration_ms is d
ResultInTime(s, d) ==
    /\ timeout.set
    /\ timeout.ms > 0
    /\ ~reported.set
    /\ reported' = [set |-> TRUE, status |-> s, duration_ms |-> d]
    /\ UNCHANGED <<timeout_ms, timeout, scrapeVars, extractVars,
                   newsnewtVars>>

----------------------------------------------------------------------------
\* Field extraction: extract_with_fallbacks, extraction.py:115-274

\* Largest number of fields in the selectors argument
MaxFields == 2

\* Field names a caller may ask for: the five built-in ones, one spelled with
\* a capital, and one without a fallback list
FieldNames ==
    {"title", "content", "author", "date", "description", "Title", "price"}

\* str.lower() on the field names above
Lower(f) == IF f = "Title" THEN "title" ELSE f

\* extraction.py:135-174
fallbacks ==
    [title |-> <<"h1", ".article-title", ".entry-title", ".post-title",
                 "[itemprop='headline']", "meta[property='og:title']">>,
     content |-> <<"article", "main", ".article-body", ".entry-content",
                   ".post-content", "[role='main']",
                   "[itemprop='articleBody']">>,
     author |-> <<".author", ".author-name", "[rel='author']",
                  "[itemprop='author']", "meta[name='author']">>,
     date |-> <<"time", ".published-date", ".post-date",
                "[itemprop='datePublished']",
                "meta[property='article:published_time']">>,
     description |-> <<".excerpt", ".description", ".summary",
                       "meta[name='description']",
                       "meta[property='og:description']">>]

\* The selectors dict in insertion order: each entry is a field name and
\* whether its config has a "css" key.  Keys of a dict are distinct.
SelectorDicts ==
    {sel \in UNION {[1..n -> [field : FieldNames, css : BOOLEAN]] :
                        n \in 0..MaxFields} :
        \A a, b \in DOMAIN sel : a # b => sel[a].field # sel[b].field}

\* Values of the local variable value: None, "", whitespace only, or text
\* that is not blank (tagged with the selector it was read with).
NoneValue == [kind |-> "None", from |-> ""]
EmptyText == [kind |-> "empty", from |-> ""]
BlankText == [kind |-> "blank", from |-> ""]
TextOf(sel) == [kind |-> "text", from |-> sel]

\* Python truth value: None and "" are false, "   " is true
Truthy(v) == v.kind \in {"blank", "text"}

\* str.strip()
Strip(v) == IF v.kind = "blank" THEN EmptyText ELSE v

\* extraction.py:196, 218  value and value.strip()
NonBlank(v) == Truthy(v) /\ Truthy(Strip(v))

\* extraction.py:229  (value or "").strip()
Cleaned(v) == Strip(IF Truthy(v) THEN v ELSE EmptyText)

\* What one selector operation can do on the page: no element matches, the
\* element's text (its content attribute for a meta selector) is None, blank
\* or real text, or locator/count/read raises.  A text of "" passes and fails
\* the same tests as None and is not listed apart.
ReadOutcomes == {"absent", "None", "blank", "text", "raise"}

\* extraction.py:189-195, 211-217  value after the operation (prev before it)
Read(prev, sel, o) ==
    CASE o = "None" -> NoneValue
      [] o = "blank" -> BlankText
      [] o = "text" -> TextOf(sel)
      [] OTHER -> prev

\* extraction.py:201-202, 224-226  except Exception: log and go on
OnSelectorExceptionPropagates(next) == "raised"

OnSelectorException(next) == next

\* extraction.py:218-223  the inner loop stops at the first non-blank value
BreaksLoopNever(v) == FALSE

BreaksLoop(v) == NonBlank(v)

NoReads == [f \in FieldNames |-> <<>>]

ExtractIdle ==
    /\ selectors = <<>>
    /\ xpc = "off"
    /\ field_no = 0
    /\ idx = 0
    /\ value = NoneValue
    /\ reads = NoReads
    /\ selector_failed = FALSE
    /\ data = <<>>

CurrentField == selectors[field_no].field

\* extraction.py:177-180  entry; the loop body runs once per requested field
BeginExtract ==
    /\ xpc = "start"
    /\ IF selectors = <<>>
       THEN xpc' = "auto_title" /\ field_no' = field_no
       ELSE xpc' = "field" /\ field_no' = 1
    /\ UNCHANGED <<selectors, idx, value, reads, selector_failed, data,
                   scrapeVars, deadlineVars,
                   newsnewtVars>>

\* extraction.py:180-185  value = None; is there a user selector?
FieldStart ==
    /\ xpc = "field"
    /\ value' = NoneValue
    /\ xpc' = IF selectors[field_no].css THEN "user" ELSE "after_user"
    /\ UNCHANGED <<selectors, field_no, idx, reads, selector_failed, data,
                   scrapeVars, deadlineVars,
                   newsnewtVars>>

\* extraction.py:185-202  the user's selector
TryUser(o) ==
    /\ xpc = "user"
    /\ value' = Read(value, "css", o)
    /\ reads' = [reads EXCEPT ![CurrentField] =
                    Append(@, [sel |-> "css", text |-> NonBlank(value')])]
    /\ selector_failed' = (selector_failed \/ o = "raise")
    /\ xpc' = IF o = "raise" THEN OnSelectorException("after_user")
                             ELSE "after_user"
    /\ UNCHANGED <<selectors, field_no, idx, data, scrapeVars, deadlineVars,
                   newsnewtVars>>

\* extraction.py:205  if not value and field_name.lower() in fallbacks
AfterUser ==
    /\ xpc = "after_user"
    /\ IF ~Truthy(value) /\ Lower(CurrentField) \in DOMAIN fallbacks
       THEN xpc' = "fallback" /\ idx' = 1
       ELSE xpc' = "store" /\ idx' = idx
    /\ UNCHANGED <<selectors, field_no, value, reads, selector_failed, data,
                   scrapeVars, deadlineVars,
                   newsnewtVars>>

\* extraction.py:209-226  one round of the fallback loop
TryFallback(o) ==
    /\ xpc = "fallback"
    /\ LET fb == fallbacks[Lower(CurrentField)]
           v == Read(value, fb[idx], o)
           next == IF (o \notin {"absent", "raise"} /\ BreaksLoop(v))
                      \/ idx = Len(fb)
                   THEN "store" ELSE "fallback"
       IN /\ value' = v
          /\ reads' = [reads EXCEPT ![CurrentField] =
                          Append(@, [sel |-> fb[idx], text |-> o = "text"])]
          /\ selector_failed' = (selector_failed \/ o = "raise")
          /\ xpc' = IF o = "raise" THEN OnSelectorException(next) ELSE next
          /\ idx' = IF next = "fallback" THEN idx + 1 ELSE idx
    /\ UNCHANGED <<selectors, field_no, data, scrapeVars, deadlineVars,
                   newsnewtVars>>

\* extraction.py:229-230  data[field_name] = (value or "").strip(); next field
Store ==
    /\ xpc = "store"
    /\ data' = (CurrentField :> Cleaned(value)) @@ data
    /\ IF field_no < Len(selectors)
       THEN xpc' = "field" /\ field_no' = field_no + 1
       ELSE xpc' = "done" /\ field_no' = field_no
    /\ UNCHANGED <<selectors, idx, value, reads, selector_failed,
                   scrapeVars, deadlineVars,
                   newsnewtVars>>

\* extraction.py:238-252  no selectors: the title from h1, kept if not empty
AutoTitle(o) ==
    /\ xpc = "auto_title"
    /\ LET v == Cleaned(Read(NoneValue, "h1", o))
       IN data' = IF Truthy(v) THEN ("title" :> v) @@ data ELSE data
    /\ selector_failed' = (selector_failed \/ o = "raise")
    /\ xpc' = IF o = "raise" THEN OnSelectorException("auto_content")
                             ELSE "auto_content"
    /\ UNCHANGED <<selectors, field_no, idx, value, reads,
                   scrapeVars, deadlineVars,
                   newsnewtVars>>

\* extraction.py:254-265  no selectors: the content from "article, main"
AutoContent(o) ==
    /\ xpc = "auto_content"
    /\ LET v == Cleaned(Read(NoneValue, "article, main", o))
       IN data' = IF Truthy(v) THEN ("content" :> v) @@ data ELSE data
    /\ selector_failed' = (selector_failed \/ o = "raise")
    /\ xpc' = IF o = "raise" THEN OnSelectorException("done") ELSE "done"
    /\ UNCHANGED <<selectors, field_no, idx, value, reads,
                   scrapeVars, deadlineVars,
                   newsnewtVars>>

----------------------------------------------------------------------------
\* newsnewt/rate_limit.py: RateLimiter.  Time is counted in ticks of one
\* clock that both datetime.now() and the timer of asyncio.sleep follow.

\* Number of wait_if_needed() calls on the one limiter
NumCallers == 3

\* The clock stops at MaxTime
MaxTime == 4

\* The constructor argument min_interval_seconds ranges over 1..MaxInterval
MaxInterval == 2

Callers == 1..NumCallers

\* rate_limit.py:22  last_request_time = None
NoTime == -1

NoObservation == [at |-> NoTime, prev |-> NoTime, slept |-> 0]

LimiterIdle ==
    /\ now = 0
    /\ min_interval = 1
    /\ last_request_time = NoTime
    /\ lock_holder = 0
    /\ lock_waiters = <<>>
    /\ lpc = [c \in Callers |-> "idle"]
    /\ wake_at = [c \in Callers |-> NoTime]
    /\ granted_at = [c \in Callers |-> NoTime]
    /\ observed = [c \in Callers |-> NoObservation]


\* asyncio.Lock.acquire returns at once only when the lock is not held and
\* nobody is queued for it
LockFreeAlways == TRUE
LockFree == lock_holder = 0 /\ lock_waiters = <<>>

\* rate_limit.py:28-30  wait_time, 0 standing for "no previous request"
WaitTimeFull ==
    IF last_request_time = NoTime THEN 0 ELSE min_interval
WaitTime ==
    IF last_request_time = NoTime
    THEN 0
    ELSE min_interval - (now - last_request_time)

\* asyncio.Lock.release: the lock goes to the first queued caller, which
\* resumes in a later step of the event loop
UnlockNoWake(c, st) ==
    /\ lock_holder' = 0
    /\ lock_waiters' = lock_waiters
    /\ lpc' = [lpc EXCEPT ![c] = st]

Unlock(c, st) ==
    IF lock_waiters = <<>>
    THEN /\ lock_holder' = 0
         /\ lock_waiters' = lock_waiters
         /\ lpc' = [lpc EXCEPT ![c] = st]
    ELSE /\ lock_holder' = Head(lock_waiters)
         /\ lock_waiters' = Tail(lock_waiters)
         /\ lpc' = [lpc EXCEPT ![c] = st,
                               ![Head(lock_waiters)] = "locked"]

Release(c) == Unlock(c, "returned")

\* rate_limit.py:36 and the exit of the async with block
Grant(c) ==
    /\ last_request_time' = now
    /\ granted_at' = [granted_at EXCEPT ![c] = now]
    /\ Release(c)

\* rate_limit.py:28-36 with the lock held: sleep for the rest of the
\* interval, or stamp the time and return
Body(c) ==
    /\ observed' = [observed EXCEPT ![c] =
                        [at |-> now, prev |-> last_request_time,
                         slept |-> IF WaitTime > 0 THEN WaitTime ELSE 0]]
    /\ IF WaitTime > 0
       THEN /\ lpc' = [lpc EXCEPT ![c] = "sleeping"]
            /\ wake_at' = [wake_at EXCEPT ![c] = now + WaitTime]
            /\ lock_holder' = c
            /\ UNCHANGED <<last_request_time, granted_at, lock_waiters>>
       ELSE /\ Grant(c)
            /\ UNCHANGED wake_at

\* rate_limit.py:25-27  a call enters; it runs on when the lock is free and
\* queues for the lock otherwise
WaitIfNeeded(c) ==
    /\ lpc[c] = "idle"
    /\ IF LockFree
       THEN Body(c)
       ELSE /\ lpc' = [lpc EXCEPT ![c] = "acquiring"]
            /\ lock_waiters' = Append(lock_waiters, c)
            /\ UNCHANGED <<last_request_time, lock_holder, wake_at,
                           granted_at, observed>>
    /\ UNCHANGED <<now, min_interval>>

\* rate_limit.py:27  a queued caller resumes holding the lock
Acquired(c) ==
    /\ lpc[c] = "locked"
    /\ Body(c)
    /\ UNCHANGED <<now, min_interval>>

\* rate_limit.py:34-36  the sleep is over
Wake(c) ==
    /\ lpc[c] = "sleeping"
    /\ now >= wake_at[c]
    /\ Grant(c)
    /\ UNCHANGED <<now, min_interval, wake_at, observed>>

\* The caller is cancelled (archive.py:69-71: wait_for gives up on
\* _create_archive, which awaits wait_if_needed at line 122).  CancelledError
\* is raised at the await the caller is suspended in: in the sleep of line 34
\* or, for a caller handed the lock, in acquire, and the lock is released
\* without line 36 being reached; a caller queued in acquire leaves the queue.
CancelledKeepsLock(c) ==
    /\ lpc[c] \in {"acquiring", "locked", "sleeping"}
    /\ lpc' = [lpc EXCEPT ![c] = "cancelled"]
    /\ lock_waiters' = SelectSeq(lock_waiters, LAMBDA w : w # c)
    /\ UNCHANGED <<now, min_interval, last_request_time, lock_holder,
                   wake_at, granted_at, observed>>

Cancelled(c) ==
    /\ lpc[c] \in {"acquiring", "locked", "sleeping"}
    /\ IF lpc[c] = "acquiring"
       THEN /\ lock_waiters' = SelectSeq(lock_waiters, LAMBDA w : w # c)
            /\ lpc' = [lpc EXCEPT ![c] = "cancelled"]
            /\ UNCHANGED lock_holder
       ELSE Unlock(c, "cancelled")
    /\ UNCHANGED <<now, min_interval, last_request_time, wake_at,
                   granted_at, observed>>

\* Time passes; the clock is followed up to MaxTime, and beyond it for as
\* long as a sleep is still due
Tick ==
    /\ \/ now < MaxTime
       \/ \E c \in Callers : lpc[c] = "sleeping" /\ wake_at[c] > now
    /\ now' = now + 1
    /\ UNCHANGED <<min_interval, last_request_time, lock_holder,
                   lock_waiters, lpc, wake_at, granted_at, observed>>

----------------------------------------------------------------------------
\* newsnewt/config.py, newsnewt/api.py, newsnewt/archive.py: POST /article

\* config.py:40-45  the services Settings.validate accepts
valid_services == {"archive_is", "archive_today", "auto"}

\* config.py:21, 48  the timeouts Settings.validate accepts, in seconds: the
\* small ones, the default 300 and the two around the 30 second cap
TimeoutSeconds == {1, 2, 3, 60, 61, 300}

\* How long a step of archive_url takes, in seconds
Durations == {0, 1, 2, 30, 31, 301}

\* The url of a request that passed the request model: the scheme, and
\* whether the host is a dotted name, "localhost", an IPv4 address or a
\* single label such as "intranet"
Urls == [scheme : {"http", "https"},
         host : {"domain", "localhost", "ip", "label"}]

\* request.archive_service: absent ("None") or any string
RequestedServices ==
    {"None", "auto", "archive_is", "archive_today", "wayback"}

\* utils.py:25-53  validate_url
validate_url_accepts_all(u) == TRUE
validate_url(u) ==
    /\ u.scheme \in {"http", "https"}
    /\ u.host \in {"domain", "localhost", "ip"}

\* archive.py:87-96  what leaves archive_url for an exception raised inside
\* its try block
LeavesUnwrapped(e) == e
Leaves(e) ==
    IF e = "TimeoutError" THEN "ArchiveTimeoutError"
    ELSE IF e \in {"ArchiveTimeoutError", "ArchiveFailureError"} THEN e
    ELSE "ArchiveFailureError"

\* api.py:143-193  the error code of the 500 answer for an exception raised
\* inside the handler's try block
ErrorCodeByBaseClass(e) ==
    IF e \in {"ArchiveTimeoutError", "ArchiveFailureError"}
    THEN "ARCHIVE_FAILURE"
    ELSE IF e = "ExtractionError" THEN "EXTRACTION_FAILURE"
    ELSE "INTERNAL_ERROR"
ErrorCode(e) ==
    IF e = "ArchiveTimeoutError" THEN "ARCHIVE_TIMEOUT"
    ELSE IF e = "ArchiveFailureError" THEN "ARCHIVE_FAILURE"
    ELSE IF e = "ExtractionError" THEN "EXTRACTION_FAILURE"
    ELSE "INTERNAL_ERROR"

\* asyncio.wait_for(step, timeout=budget) with a step that takes d seconds
TimedOut(d, budget) == budget <= 0 \/ d > budget

Min(a, b) == IF a < b THEN a ELSE b

\* archive.py:81  the budget of the HTML fetch
FetchBudget(t) == Min(30, t \div 2)

NoHttpResponse == [status |-> 0, code |-> "none"]
NoArchiveResult == [kind |-> "none", url |-> FALSE, fetched |-> FALSE]
NoDurations == [create |-> NoTime, fetch |-> NoTime, created |-> "unset"]

ArticleIdle ==
    /\ settings = [archive_service |-> "archive_is", timeout_seconds |-> 300,
                   log_level |-> "INFO"]
    /\ article_request =
          [url |-> [scheme |-> "https", host |-> "domain"],
           archive_service |-> "None"]
    /\ apc = "idle"
    /\ calls = <<>>
    /\ archive_service = "None"
    /\ took = NoDurations
    /\ raised = "none"
    /\ archive_result = NoArchiveResult
    /\ http_response = NoHttpResponse

\* api.py:143-193  an exception raised inside the try block becomes a 500
HandlerRaises(e) ==
    /\ raised' = e
    /\ http_response' = [status |-> 500, code |-> ErrorCode(e)]
    /\ apc' = "done"

\* archive_url raises e to the handler
ArchiveRaises(e, attempted) ==
    /\ archive_result' = [kind |-> Leaves(e), url |-> FALSE,
                          fetched |-> attempted]
    /\ HandlerRaises(Leaves(e))

\* api.py:79-100  validate_url, then the archive settings
Validate ==
    /\ apc = "start"
    /\ calls' = Append(calls, "validate_url")
    /\ IF validate_url(article_request.url)
       THEN /\ archive_service' =
                  IF article_request.archive_service # "None"
                  THEN article_request.archive_service
                  ELSE settings.archive_service
            /\ apc' = "archive_url"
            /\ UNCHANGED http_response
       ELSE /\ http_response' = [status |-> 400, code |-> "INVALID_URL"]
            /\ apc' = "done"
            /\ UNCHANGED archive_service
    /\ UNCHANGED <<settings, article_request, took, raised, archive_result>>

\* api.py:112-117, archive.py:67-74, 99-164  archive_url is called and runs
\* _create_archive under wait_for; o is what the archive service gives back
\* and d how long the step takes
CreateArchive(o, d) ==
    /\ apc = "archive_url"
    /\ calls' = Append(calls, "archive_url")
    /\ IF archive_service \notin {"archive_is", "archive_today"}
       THEN /\ took' = took
            /\ ArchiveRaises("ArchiveFailureError", FALSE)
       ELSE IF TimedOut(d, settings.timeout_seconds)
       THEN /\ took' = [took EXCEPT !.create = d]
            /\ ArchiveRaises("TimeoutError", FALSE)
       ELSE /\ took' = [took EXCEPT !.create = d, !.created = o]
            /\ IF o = "None"
               THEN ArchiveRaises("ArchiveFailureError", FALSE)
               ELSE /\ apc' = "fetch"
                    /\ UNCHANGED <<raised, archive_result, http_response>>
    /\ UNCHANGED <<settings, article_request, archive_service>>

\* archive.py:77-85, 167-195  _fetch_archived_html under wait_for, and the
\* return of archive_url
FetchArchivedHtml(o, d) ==
    /\ apc = "fetch"
    /\ took' = [took EXCEPT !.fetch = d]
    /\ IF TimedOut(d, FetchBudget(settings.timeout_seconds))
       THEN ArchiveRaises("TimeoutError", TRUE)
       ELSE IF o = "ArchiveFailureError"
       THEN ArchiveRaises("ArchiveFailureError", TRUE)
       ELSE /\ archive_result' = [kind |-> "returned", url |-> TRUE,
                                  fetched |-> TRUE]
            /\ apc' = "extract"
            /\ UNCHANGED <<raised, http_response>>
    /\ UNCHANGED <<settings, article_request, calls, archive_service>>

\* api.py:126, extractor.py:19-73  extract_article_content
ExtractArticleContent(o) ==
    /\ apc = "extract"
    /\ calls' = Append(calls, "extract_article_content")
    /\ IF o = "ExtractionError"
       THEN HandlerRaises("ExtractionError")
       ELSE /\ apc' = "respond"
            /\ UNCHANGED <<raised, http_response>>
    /\ UNCHANGED <<settings, article_request, archive_service, took,
                   archive_result>>

\* api.py:127-141  the ArticleResponse is built and returned; o is whether
\* building it raises
Respond(o) ==
    /\ apc = "respond"
    /\ IF o = "ok"
       THEN /\ http_response' = [status |-> 200, code |-> "none"]
            /\ apc' = "done"
            /\ UNCHANGED raised
       ELSE HandlerRaises(o)
    /\ UNCHANGED <<settings, article_request, calls, archive_service, took,
                   archive_result>>

----------------------------------------------------------------------------
\* newsnewt/config.py: Settings.validate; newsnewt/utils.py:
\* resolve_archive_service

\* config.py:55
valid_log_levels == {"DEBUG", "INFO", "WARNING", "ERROR", "CRITICAL"}

\* What the environment can put into the settings
SettingsValues ==
    [archive_service : valid_services \cup {"wayback"},
     timeout_seconds : {0} \cup TimeoutSeconds,
     log_level : {"INFO", "DEBUG", "TRACE"}]

\* The arguments resolve_archive_service is called with: None, the empty
\* string, the three known names and two others
ResolveArguments ==
    {"None", "", "auto", "archive_is", "archive_today", "wayback",
     "invalid_service"}

ResolveIdle ==
    /\ validated = "unchecked"
    /\ requested_service = "auto"
    /\ resolved = "unset"

\* config.py:37-60  whether validate() returns
Accepted(s) ==
    /\ s.archive_service \in valid_services
    /\ s.timeout_seconds > 0
    /\ s.log_level \in valid_log_levels

\* utils.py:78-97
resolve_archive_service(r) ==
    IF r = "auto" THEN settings.archive_service
    ELSE IF r = "archive_today" THEN "archive_is"
    ELSE r

\* config.py:37-60, api.py:17-21  validate() at start-up
ValidateSettings ==
    /\ validated = "unchecked"
    /\ validated' = IF Accepted(settings) THEN "ok" ELSE "ValueError"
    /\ UNCHANGED <<settings, requested_service, resolved>>

\* utils.py:78-97  one call, in a process whose settings were accepted
ResolveArchiveService ==
    /\ validated = "ok"
    /\ resolved = "unset"
    /\ resolved' = resolve_archive_service(requested_service)
    /\ UNCHANGED <<settings, requested_service, validated>>

NewsnewtIdle == LimiterIdle /\ ArticleIdle /\ ResolveIdle

----------------------------------------------------------------------------
Init ==
    /\ ScrapeInit
    /\ DeadlineIdle
    /\ ExtractIdle
    /\ NewsnewtIdle

Next ==
    \/ \E i \in Ids : Register(i)
        /\ UNCHANGED <<deadlineVars, extractVars, newsnewtVars, keyVars, shutdown>>
    \/ \E i \in Ids : AddRequests(i)
        /\ UNCHANGED <<deadlineVars, extractVars, newsnewtVars, url, shutdown>>
    \/ \E i \in Ids : EnsureRunning(i)
        /\ UNCHANGED <<deadlineVars, extractVars, newsnewtVars, keyVars, shutdown>>
    \/ \E i \in Ids : Timeout(i)
        /\ UNCHANGED <<deadlineVars, extractVars, newsnewtVars, keyVars, shutdown>>
    \/ \E i \in Ids : WaiterTimedOut(i)
        /\ UNCHANGED <<deadlineVars, extractVars, newsnewtVars, keyVars, shutdown>>
    \/ \E i \in Ids : WaiterReturns(i)
        /\ UNCHANGED <<deadlineVars, extractVars, newsnewtVars, keyVars, shutdown>>
    \/ \E t \in 1..NumCalls : LoopBegin(t)
        /\ UNCHANGED <<deadlineVars, extractVars, newsnewtVars, keyVars, shutdown>>
    \/ \E t \in 1..NumCalls : LoopDrained(t)
        /\ UNCHANGED <<deadlineVars, extractVars, newsnewtVars, keyVars, shutdown>>
    \/ \E t \in 1..NumCalls : LoopExit(t)
        /\ UNCHANGED <<deadlineVars, extractVars, newsnewtVars, keyVars, shutdown>>
    \/ \E i \in Ids : Dispatch(i)
        /\ UNCHANGED <<deadlineVars, extractVars, newsnewtVars, keyVars, shutdown>>
    \/ \E i \in Ids : \E o \in {"ok", "ImportError", "error"} : Stealth(i, o)
        /\ UNCHANGED <<deadlineVars, extractVars, newsnewtVars, keyVars, shutdown>>
    \/ \E i \in Ids : \E o \in LoadOutcomes : Load(i, o)
        /\ UNCHANGED <<deadlineVars, extractVars, newsnewtVars, keyVars, shutdown>>
    \/ \E i \in Ids : Popups(i)
        /\ UNCHANGED <<deadlineVars, extractVars, newsnewtVars, keyVars, shutdown>>
    \/ \E i \in Ids : \E d \in BOOLEAN : Captcha(i, d)
        /\ UNCHANGED <<deadlineVars, extractVars, newsnewtVars, keyVars, shutdown>>
    \/ \E i \in Ids : RaiseCaptcha(i)
        /\ UNCHANGED <<deadlineVars, extractVars, newsnewtVars, keyVars, shutdown>>
    \/ \E i \in Ids : Extract(i)
        /\ UNCHANGED <<deadlineVars, extractVars, newsnewtVars, keyVars, shutdown>>
    \/ \E i \in Ids : HandlerFailed(i)
        /\ UNCHANGED <<deadlineVars, extractVars, newsnewtVars, keyVars, shutdown>>

Spec == Init /\ [][Next]_vars

\* The event loop runs every coroutine that is ready: the continuation of
\* scrape() after add_requests, the first step of a created run_crawler task,
\* and the engine's fetch of the next queued unit while it runs.
FairSpec ==
    /\ Spec
    /\ \A i \in Ids :
          WF_vars(EnsureRunning(i)
                  /\ UNCHANGED <<deadlineVars, extractVars, newsnewtVars, keyVars, shutdown>>)
    /\ \A t \in 1..NumCalls :
          WF_vars(LoopBegin(t)
                  /\ UNCHANGED <<deadlineVars, extractVars, newsnewtVars, keyVars, shutdown>>)
    /\ \A i \in Ids :
          WF_vars(Dispatch(i)
                  /\ UNCHANGED <<deadlineVars, extractVars, newsnewtVars, keyVars, shutdown>>)

\* Scrape calls that may name the same URL
InitSameUrl ==
    /\ ScrapeStart
    /\ url \in [Ids -> Ids]
    /\ DeadlineIdle
    /\ ExtractIdle
    /\ NewsnewtIdle

SpecSameUrl == InitSameUrl /\ [][Next]_vars

\* The scrape service with calls that are aborted above the try block of
\* routes.py:80: an enqueue that raises, a call that is cancelled
NextAborts ==
    \/ Next
    \/ \E i \in Ids : AddRequestsRaises(i)
        /\ UNCHANGED <<deadlineVars, extractVars, newsnewtVars, keyVars, shutdown>>
    \/ \E i \in Ids : CancelledInPause(i)
        /\ UNCHANGED <<deadlineVars, extractVars, newsnewtVars, keyVars, shutdown>>

SpecAborts == Init /\ [][NextAborts]_vars

\* The scrape service with a loop task that ends other than by draining the
\* queue: crawler.run() raises, or the task is cancelled
NextFaults ==
    \/ Next
    \/ \E t \in 1..NumCalls : LoopCrashes(t)
        /\ UNCHANGED <<deadlineVars, extractVars, newsnewtVars, keyVars, shutdown>>
    \/ CancelCrawlerTask
        /\ UNCHANGED <<deadlineVars, extractVars, newsnewtVars, keyVars, shutdown>>

SpecFaults == Init /\ [][NextFaults]_vars

\* The scrape service up to its shutdown, with a loop that may end by
\* crawler.run() raising; nothing is served after the shutdown
NextShutdown ==
    \/ shutdown = "none" /\ Next
    \/ \E t \in 1..NumCalls : shutdown = "none" /\ LoopCrashes(t)
        /\ UNCHANGED <<deadlineVars, extractVars, newsnewtVars, keyVars, shutdown>>
    \/ Shutdown
        /\ UNCHANGED <<deadlineVars, extractVars, newsnewtVars, keyVars>>

SpecShutdown == Init /\ [][NextShutdown]_vars

\* One scrape call computing its deadline, for every timeout_ms a request
\* can carry
InitDeadline ==
    /\ ScrapeInit
    /\ ExtractIdle
    /\ NewsnewtIdle
    /\ timeout_ms \in TimeoutMsValues
    /\ timeout = NoTimeout
    /\ reported = NoReport

NextDeadline ==
    \/ ComputeTimeout
    \/ DeadlineExpires
    \/ \E s \in {200, 422, 500} : \E d \in HandlerDurations : ResultInTime(s, d)

SpecDeadline == InitDeadline /\ [][NextDeadline]_vars

\* One run of extract_with_fallbacks, for every selectors argument and every
\* behaviour of the page
InitExtract ==
    /\ ScrapeInit
    /\ DeadlineIdle
    /\ NewsnewtIdle
    /\ selectors \in SelectorDicts
    /\ xpc = "start"
    /\ field_no = 0
    /\ idx = 0
    /\ value = NoneValue
    /\ reads = NoReads
    /\ selector_failed = FALSE
    /\ data = <<>>

NextExtract ==
    \/ BeginExtract
    \/ FieldStart
    \/ \E o \in ReadOutcomes : TryUser(o)
    \/ AfterUser
    \/ \E o \in ReadOutcomes : TryFallback(o)
    \/ Store
    \/ \E o \in ReadOutcomes : AutoTitle(o)
    \/ \E o \in ReadOutcomes : AutoContent(o)

SpecExtract == InitExtract /\ [][NextExtract]_vars

\* Calls on one limiter, arriving at any time, for every min_interval
InitLimiter ==
    /\ ScrapeInit
    /\ DeadlineIdle
    /\ ExtractIdle
    /\ ArticleIdle
    /\ ResolveIdle
    /\ now = 0
    /\ min_interval \in 1..MaxInterval
    /\ last_request_time = NoTime
    /\ lock_holder = 0
    /\ lock_waiters = <<>>
    /\ lpc = [c \in Callers |-> "idle"]
    /\ wake_at = [c \in Callers |-> NoTime]
    /\ granted_at = [c \in Callers |-> NoTime]
    /\ observed = [c \in Callers |-> NoObservation]

NextLimiter ==
    \/ \E c \in Callers : WaitIfNeeded(c)
        /\ UNCHANGED <<scrapeVars, deadlineVars, extractVars, articleVars,
                       resolveVars>>
    \/ \E c \in Callers : Acquired(c)
        /\ UNCHANGED <<scrapeVars, deadlineVars, extractVars, articleVars,
                       resolveVars>>
    \/ \E c \in Callers : Wake(c)
        /\ UNCHANGED <<scrapeVars, deadlineVars, extractVars, articleVars,
                       resolveVars>>
    \/ \E c \in Callers : Cancelled(c)
        /\ UNCHANGED <<scrapeVars, deadlineVars, extractVars, articleVars,
                       resolveVars>>
    \/ Tick
        /\ UNCHANGED <<scrapeVars, deadlineVars, extractVars, articleVars,
                       resolveVars>>

SpecLimiter == InitLimiter /\ [][NextLimiter]_vars

\* The event loop resumes a caller that was handed the lock and one whose
\* sleep is over, and time goes on
FairLimiter ==
    /\ SpecLimiter
    /\ \A c \in Callers :
          WF_vars(Acquired(c)
                  /\ UNCHANGED <<scrapeVars, deadlineVars, extractVars,
                                 articleVars, resolveVars>>)
    /\ \A c \in Callers :
          WF_vars(Wake(c)
                  /\ UNCHANGED <<scrapeVars, deadlineVars, extractVars,
                                 articleVars, resolveVars>>)
    /\ WF_vars(Tick
               /\ UNCHANGED <<scrapeVars, deadlineVars, extractVars,
                              articleVars, resolveVars>>)

\* One POST /article call, for every request, every validated configuration
\* and every behaviour of the archive service and of the extractor
InitArticle ==
    /\ ScrapeInit
    /\ DeadlineIdle
    /\ ExtractIdle
    /\ LimiterIdle
    /\ settings \in {s \in SettingsValues : Accepted(s)}
    /\ ResolveIdle
    /\ article_request \in [url : Urls, archive_service : RequestedServices]
    /\ apc = "start"
    /\ calls = <<>>
    /\ archive_service = "None"
    /\ took = NoDurations
    /\ raised = "none"
    /\ archive_result = NoArchiveResult
    /\ http_response = NoHttpResponse

NextArticle ==
    \/ Validate
        /\ UNCHANGED <<scrapeVars, deadlineVars, extractVars, limiterVars,
                       resolveVars>>
    \/ \E o \in {"url", "None"} : \E d \in Durations : CreateArchive(o, d)
        /\ UNCHANGED <<scrapeVars, deadlineVars, extractVars, limiterVars,
                       resolveVars>>
    \/ \E o \in {"html", "ArchiveFailureError"} : \E d \in Durations :
          FetchArchivedHtml(o, d)
        /\ UNCHANGED <<scrapeVars, deadlineVars, extractVars, limiterVars,
                       resolveVars>>
    \/ \E o \in {"text", "ExtractionError"} : ExtractArticleContent(o)
        /\ UNCHANGED <<scrapeVars, deadlineVars, extractVars, limiterVars,
                       resolveVars>>
    \/ \E o \in {"ok", "ValidationError"} : Respond(o)
        /\ UNCHANGED <<scrapeVars, deadlineVars, extractVars, limiterVars,
                       resolveVars>>

SpecArticle == InitArticle /\ [][NextArticle]_vars

\* resolve_archive_service, for every argument and every configuration
InitResolve ==
    /\ ScrapeInit
    /\ DeadlineIdle
    /\ ExtractIdle
    /\ LimiterIdle
    /\ settings \in SettingsValues
    /\ article_request =
          [url |-> [scheme |-> "https", host |-> "domain"],
           archive_service |-> "None"]
    /\ apc = "idle"
    /\ calls = <<>>
    /\ archive_service = "None"
    /\ took = NoDurations
    /\ raised = "none"
    /\ archive_result = NoArchiveResult
    /\ http_response = NoHttpResponse
    /\ validated = "unchecked"
    /\ requested_service \in ResolveArguments
    /\ resolved = "unset"

NextResolve ==
    \/ ValidateSettings
        /\ UNCHANGED <<scrapeVars, deadlineVars, extractVars, limiterVars,
                       article_request, apc, calls, archive_service, took,
                       raised, archive_result, http_response>>
    \/ ResolveArchiveService
        /\ UNCHANGED <<scrapeVars, deadlineVars, extractVars, limiterVars,
                       article_request, apc, calls, archive_service, took,
                       raised, archive_result, http_response>>

SpecResolve == InitResolve /\ [][NextResolve]_vars

----------------------------------------------------------------------------
\* Properties

\* Positions of scrape() after the start decision of routes.py:61-76
PastStart == {"waiting", "timedout", "done"}

\* Positions of request_handler from which the next step can leave the handler
HandlerEnded == {"returned"} \cup RaisedStates

\* C1: while scrape calls and loop exits interleave in any order, at most one
\* run_crawler task is alive at any time, and as soon as one call is past the
\* start decision a loop task has been created (one, not zero).
C1_SingleLoop ==
    /\ Cardinality(ActiveTasks) <= 1
    /\ (\E i \in Ids : pc[i] \in PastStart) => crawler_task # 0

\* All calls arrived while no loop was active, all are past the start decision
\* and one loop runs.
C1_Witness ==
    /\ \A i \in Ids : pc[i] = "waiting" /\ future[i].state = "pending"
    /\ Cardinality(ActiveTasks) = 1
    /\ tasks[crawler_task] = "running"

\* C2: once the engine is done with a work unit (handler returned, or the unit
\* was given up) the unit has produced its result write and the resolution of
\* its handle: a caller still waiting finds the handle resolved and the result
\* stored.
C2_UnitResolved ==
    \A i \in Ids :
        (hpc[i] \in {"returned", "failed"} /\ pc[i] = "waiting")
            => /\ future[i].state = "resolved"
               /\ requests_to_results[i] # NoResult

\* C3: a call whose deadline elapsed before the handler resolved its future
\* answers 408 with meta.status 408 and error_type timeout, whatever the
\* handler does later.
C3_TimeoutGives408 ==
    \A i \in Ids :
        (pc[i] = "done" /\ future[i].state = "cancelled")
            => /\ response[i].http = 408
               /\ response[i].status = 408
               /\ response[i].error_type = "timeout"

\* The caller got its 408 and the handler finished afterwards, leaving a result.
C3_Witness ==
    \E i \in Ids :
        /\ pc[i] = "done"
        /\ future[i].state = "cancelled"
        /\ hpc[i] = "returned"
        /\ requests_to_results[i] # NoResult

\* C4: after the caller of an id timed out (its future is cancelled), the
\* handler's resolution attempt for that id does not raise.
C4_LateResolveNeverRaises ==
    \A i \in Ids :
        future[i].state = "cancelled" => hpc[i] # "raised_InvalidStateError"

\* C5: for a timed-out request, once the caller has returned and the handler
\* has finished, requests_to_results holds no entry for the id.
C5_NoEntryLeftBehind ==
    \A i \in Ids :
        (pc[i] = "done" /\ response[i].http = 408
            /\ hpc[i] \in {"returned", "failed"})
            => requests_to_results[i] = NoResult

\* C6: when control has left request_handler (normally or by an exception) and
\* the id is still registered, its completion handle is resolved.
C6_HandlerAlwaysResolves ==
    \A i \in Ids :
        (hpc[i] \in HandlerEnded /\ i \in pending_requests)
            => future[i].state # "pending"

\* C7: a handler that is in the page-load wait, the popup dismissal or the
\* captcha detection never leaves by an exception on its next step: a failure
\* of the step becomes an error result and the handler returns.
C7_StepFailureContained ==
    [][\A i \in Ids :
          hpc[i] \in {"load", "popups", "captcha", "captcha_found"}
              => hpc'[i] \notin RaisedStates]_vars

\* C8: the step in which a caller's deadline elapses and the step in which the
\* timed-out caller cleans up and answers leave the handler run of every unit,
\* the queue, the retry counts and the loop tasks as they are.
C8_TimeoutLeavesHandler ==
    [][\A i \in Ids :
          ((pc[i] = "waiting" /\ pc'[i] = "timedout")
              \/ (pc[i] = "timedout" /\ pc'[i] = "done"))
          => /\ hpc' = hpc
             /\ retries' = retries
             /\ queue' = queue
             /\ tasks' = tasks]_vars

\* A caller timed out while its unit was in the handler; that single handler
\* run completed afterwards, and the loop went on to complete another unit.
C8_Witness ==
    \E i, j \in Ids :
        /\ i # j
        /\ response[i].http = 408
        /\ hpc[i] = "returned" /\ retries[i] = 0
        /\ requests_to_results[i].status = 200
        /\ future[j].state = "resolved"

\* C9: the handler step that ends the run for id a leaves the future, the
\* registration and the stored result of every other id b unchanged, and every
\* caller that received a response received the one of its own work unit.
C9_Independent ==
    /\ [][\A a \in Ids :
             (hpc[a] \notin HandlerEnded /\ hpc'[a] \in HandlerEnded)
             => \A b \in Ids \ {a} :
                   /\ future'[b] = future[b]
                   /\ requests_to_results'[b] = requests_to_results[b]
                   /\ (b \in pending_requests') = (b \in pending_requests)]_vars
    /\ [](\A i \in Ids : pc[i] = "done" => response[i].rid = i)

\* Two ids registered at the same time were resolved with different results
\* and each caller got its own.
C9_Witness ==
    \E a, b \in Ids :
        /\ a # b
        /\ pc[a] = "done" /\ pc[b] = "done"
        /\ response[a].http = 200 /\ response[a].status = 200
        /\ response[a].error_type = "none" /\ response[a].rid = a
        /\ response[b].http = 422 /\ response[b].status = 422
        /\ response[b].error_type = "captcha_detected" /\ response[b].rid = b

\* C10: a resolution attempt for an id whose handle is already completed and
\* still registered is a no-op: the handler returns normally and the handle
\* keeps its state and value.
C10_SecondResolveIsNoOp ==
    [][\A i \in Ids :
          (/\ i \in pending_requests
           /\ future[i].state # "pending"
           /\ hpc[i] \in {"load", "captcha_found", "extract"}
           /\ hpc'[i] \notin {"load", "popups", "captcha", "captcha_found",
                               "extract"})
          => (hpc'[i] = "returned" /\ future'[i] = future[i])]_vars

\* C11: a work unit that sits in the queue while no run_crawler task is alive
\* (it was enqueued before the loop starts) is handed to request_handler once
\* the loop has been started: the call that enqueued it reaches the start
\* decision after the enqueue, and the engine does not wind down while the
\* queue holds a unit.
C11_EnqueuedBeforeStartIsProcessed ==
    \A i \in Ids :
        (pc[i] = "added" /\ ActiveTasks = {}) ~> (hpc[i] # "none")

\* the only call so far enqueued its unit, started the loop, and the loop
\* handed the unit to the handler
C11_Witness ==
    \E i \in Ids :
        /\ \A j \in Ids \ {i} : pc[j] = "idle"
        /\ pc[i] = "waiting"
        /\ hpc[i] \in InFlightStates
        /\ retries[i] = 0
        /\ crawler_task # 0
        /\ tasks[crawler_task] = "running"

\* C12: once a scrape call has returned or raised on a result it received
\* from its future (success or failure), neither pending_requests nor
\* requests_to_results holds an entry for its id, in that state and in every
\* later one.
C12_NoEntryAfterResult ==
    \A i \in Ids :
        (pc[i] = "done" /\ future[i].state = "resolved")
            => /\ i \notin pending_requests
               /\ requests_to_results[i] = NoResult

\* a call answered from a failure result, seen after the loop has exited
C12_Witness ==
    \E i \in Ids :
        /\ pc[i] = "done"
        /\ future[i].state = "resolved"
        /\ response[i].http = 500
        /\ hpc[i] = "returned"
        /\ tasks # <<>>
        /\ ActiveTasks = {}

\* C13: the result a run of request_handler leaves behind has status 200
\* exactly when the four steps completed without an exception, status 422
\* with error_type captcha_detected exactly when detect_captcha returned true,
\* and status 500 with error_type scraping_error for every other exception of
\* the four steps, whatever its message.
HandlerSteps == {"load", "popups", "captcha", "captcha_found", "extract"}

C13_ResultMatchesOutcome ==
    [][\A i \in Ids :
        (hpc[i] \in HandlerSteps /\ hpc'[i] \notin HandlerSteps)
            => LET r == requests_to_results'[i] IN
               /\ hpc[i] = "extract"
                    => (r.status = 200 /\ r.error_type = "none")
               /\ hpc[i] = "captcha_found"
                    => (r.status = 422 /\ r.error_type = "captcha_detected")
               /\ hpc[i] \in {"load", "popups"}
                    => (r.status = 500 /\ r.error_type = "scraping_error")]_vars

\* C14: every response of scrape() carries meta.duration_ms; every response
\* other than 200 also carries an error_type out of timeout, captcha_detected,
\* scraping_error and an error_message; the HTTP status code is the
\* meta.status of the body, one of 200, 408, 422, 500.
ErrorTypes == {"timeout", "captcha_detected", "scraping_error"}

C14_ResponseShape ==
    \A i \in Ids :
        pc[i] = "done"
            => LET r == response[i] IN
               /\ "duration_ms" \in r.meta_keys
               /\ r.http = r.status
               /\ r.status \in {200, 408, 422, 500}
               /\ r.status = 200 <=> r.error_type = "none"
               /\ r.status # 200
                    => /\ r.error_type \in ErrorTypes
                       /\ "error_message" \in r.meta_keys

\* one call answered 408 and another answered 500
C14_Witness ==
    \E a, b \in Ids :
        /\ pc[a] = "done" /\ pc[b] = "done"
        /\ response[a].http = 408 /\ response[a].error_type = "timeout"
        /\ response[b].http = 500 /\ response[b].error_type = "scraping_error"

\* C15: a call registers its future in pending_requests before it adds the
\* work unit to the queue: a unit that is queued or that the handler has
\* been invoked for belongs to a call past the registration, and the id is
\* registered for as long as that call has not finished.
C15_RegisteredBeforeEnqueued ==
    \A i \in Ids :
        (i \in Queued \/ hpc[i] # "none")
            => /\ pc[i] \notin {"idle", "adding"}
               /\ pc[i] # "done" => i \in pending_requests

\* the handler runs for a unit whose call has not even reached the start
\* decision; another call started the loop
C15_Witness ==
    \E i \in Ids :
        /\ pc[i] = "added"
        /\ hpc[i] \in HandlerSteps
        /\ i \in pending_requests
        /\ future[i].state = "pending"

\* C17: for each work unit the steps of a handler run follow one another in
\* the order load wait, popup dismissal, captcha detection, extraction; when
\* captcha detection returned true the run ends without invoking field
\* extraction and the result it leaves is captcha_detected.
C17_StepOrder ==
    [][\A i \in Ids :
        hpc'[i] # hpc[i]
            => /\ hpc'[i] = "load" => hpc[i] = "stealth"
               /\ hpc'[i] = "popups" => hpc[i] = "load"
               /\ hpc'[i] = "captcha" => hpc[i] = "popups"
               /\ hpc'[i] \in {"captcha_found", "extract"} => hpc[i] = "captcha"
               /\ hpc[i] = "captcha_found"
                    => /\ hpc'[i] \in HandlerEnded
                       /\ requests_to_results'[i].error_type = "captcha_detected"
                       /\ requests_to_results'[i].status = 422]_vars

\* one unit whose captcha detection returned true has ended with a
\* captcha_detected result while another unit has reached extraction
C17_Witness ==
    \E a, b \in Ids :
        /\ hpc[a] = "returned"
        /\ future[a].state = "resolved"
        /\ future[a].result.error_type = "captcha_detected"
        /\ hpc[b] = "extract"

C16_DeadlineIsTimeoutMs ==
    timeout.set
        => timeout.ms = IF timeout_ms.given THEN timeout_ms.ms
                                            ELSE DefaultTimeoutMs

\* Where the run of extract_with_fallbacks stands with the k-th requested field
Stored(k) == k \in 1..Len(selectors) /\ selectors[k].field \in DOMAIN data

\* The fallback selectors of the title field, as documented
TitleFallbacks ==
    <<"h1", ".article-title", ".entry-title", ".post-title",
      "[itemprop='headline']", "meta[property='og:title']">>

\* C19: for a requested built-in field without a user selector the fallback
\* selectors are read in the order of the field's list, one after the other
\* from the first; the reading stops at the first one that gives non-blank
\* text and that text is the field's value; for title the list is h1,
\* .article-title, .entry-title, .post-title, [itemprop='headline'],
\* meta[property='og:title'].
C19_FallbackOrder ==
    /\ fallbacks.title = TitleFallbacks
    /\ \A k \in 1..Len(selectors) :
        (/\ Stored(k)
         /\ ~selectors[k].css
         /\ Lower(selectors[k].field) \in DOMAIN fallbacks)
        => LET f == selectors[k].field
               fb == fallbacks[Lower(f)]
               rd == reads[f]
               n == Len(rd)
           IN /\ n \in 1..Len(fb)
              /\ \A m \in 1..n : rd[m].sel = fb[m]
              /\ \A m \in 1..(n - 1) : ~rd[m].text
              /\ IF rd[n].text
                 THEN data[f] = TextOf(fb[n])
                 ELSE n = Len(fb) /\ data[f] = EmptyText

\* title was requested without a user selector, the first two fallbacks gave
\* nothing and the third one, .entry-title, gave the value
C19_Witness ==
    /\ xpc = "done"
    /\ \E k \in 1..Len(selectors) :
          selectors[k] = [field |-> "title", css |-> FALSE]
    /\ "title" \in DOMAIN data
    /\ data["title"] = TextOf(".entry-title")
    /\ Len(reads["title"]) = 3

\* C20: a selector operation that raises never makes extract_with_fallbacks
\* raise; with selectors supplied the returned dict has exactly the requested
\* field names as keys, and a field none of whose selectors gave non-blank
\* text has the empty string as its value.
C20_NeverRaisesAllKeys ==
    /\ xpc # "raised"
    /\ (xpc = "done" /\ selectors # <<>>)
        => /\ DOMAIN data = {selectors[k].field : k \in 1..Len(selectors)}
           /\ \A f \in DOMAIN data :
                (\A m \in 1..Len(reads[f]) : ~reads[f][m].text)
                    => data[f] = EmptyText

\* two fields were requested, a selector operation raised on the way, and the
\* run returned both keys, one of them with the empty string
C20_Witness ==
    /\ xpc = "done"
    /\ Len(selectors) = 2
    /\ selector_failed
    /\ \E f, g \in DOMAIN data :
          /\ data[f] = EmptyText
          /\ Len(reads[f]) > 1
          /\ data[g].kind = "text"

Granted(c) == granted_at[c] # NoTime

\* C21: the instants at which two calls of wait_if_needed on one limiter
\* return (are granted) are at least min_interval apart, whether the calls
\* come one after the other or overlap.
C21_GrantsSpaced ==
    \A c, d \in Callers :
        (c # d /\ Granted(c) /\ Granted(d))
            => \/ granted_at[c] - granted_at[d] >= min_interval
               \/ granted_at[d] - granted_at[c] >= min_interval

\* three overlapping calls: two were granted exactly min_interval apart, the
\* second after queueing for the lock, and the third is asleep
C21_Witness ==
    /\ min_interval = 2
    /\ \E c, d, e \in Callers :
          /\ Granted(c) /\ Granted(d)
          /\ granted_at[d] = granted_at[c] + min_interval
          /\ observed[d].at = observed[c].at
          /\ lpc[e] = "sleeping"

\* C22: wait_if_needed does not sleep when it is the first call on the
\* limiter or when at least min_interval has passed since the previous
\* grant, and then returns at the instant it looked at the clock; otherwise
\* it sleeps for min_interval minus the time already passed.
C22_SleepsOnlyForRemainder ==
    \A c \in Callers :
        lpc[c] \in {"sleeping", "returned"}
            => LET first == observed[c].prev = NoTime
                   elapsed == observed[c].at - observed[c].prev
               IN  IF first \/ elapsed >= min_interval
                   THEN /\ observed[c].slept = 0
                        /\ lpc[c] = "returned"
                        /\ granted_at[c] = observed[c].at
                   ELSE observed[c].slept = min_interval - elapsed

\* one call returned without sleeping although it was not the first, the
\* interval having passed, and another slept for part of the interval only
C22_Witness ==
    /\ min_interval = 2
    /\ \E c, d \in Callers :
          /\ lpc[c] = "returned" /\ lpc[d] = "returned"
          /\ observed[c].prev # NoTime /\ observed[c].slept = 0
          /\ observed[d].slept = 1
          /\ granted_at[d] = observed[d].at + 1

ArchiveEnded == archive_result.kind # "none"

\* C23: archive_url ends in one of three ways: it returns a non-empty
\* archive URL with the HTML, it raises ArchiveTimeoutError exactly when the
\* creation or the HTML fetch outran its time budget, or it raises
\* ArchiveFailureError, which it does when the creation gave no URL; no
\* other exception leaves it, and the HTML fetch is attempted only after the
\* creation gave a URL.
C23_ArchiveOutcomes ==
    /\ archive_result.kind \in {"none", "returned", "ArchiveTimeoutError",
                                "ArchiveFailureError"}
    /\ archive_result.kind = "returned"
        => archive_result.url /\ archive_result.fetched
    /\ ArchiveEnded
        => (archive_result.kind = "ArchiveTimeoutError"
            <=> \/ /\ took.create # NoTime
                   /\ took.create > settings.timeout_seconds
                \/ /\ took.fetch # NoTime
                   /\ \/ took.fetch > 30
                      \/ took.fetch > settings.timeout_seconds \div 2
                      \/ settings.timeout_seconds \div 2 = 0)
    /\ (took.fetch # NoTime \/ archive_result.fetched)
        => took.created = "url"
    /\ took.created = "None"
        => /\ archive_result.kind = "ArchiveFailureError"
           /\ ~archive_result.fetched

\* the creation answered in time without a URL and archive_url raised
\* ArchiveFailureError with no fetch
C23_Witness ==
    /\ took.created = "None"
    /\ took.create = 30
    /\ archive_result = [kind |-> "ArchiveFailureError", url |-> FALSE,
                         fetched |-> FALSE]
    /\ took.fetch = NoTime

\* C24: POST /article answers every failure inside its try block with HTTP
\* 500 and an error code of its own: ArchiveTimeoutError gives
\* ARCHIVE_TIMEOUT, ArchiveFailureError ARCHIVE_FAILURE, ExtractionError
\* EXTRACTION_FAILURE and any other exception INTERNAL_ERROR.
C24_ErrorCodes ==
    raised # "none"
        => /\ apc = "done"
           /\ http_response.status = 500
           /\ http_response.code =
                CASE raised = "ArchiveTimeoutError" -> "ARCHIVE_TIMEOUT"
                  [] raised = "ArchiveFailureError" -> "ARCHIVE_FAILURE"
                  [] raised = "ExtractionError" -> "EXTRACTION_FAILURE"
                  [] OTHER -> "INTERNAL_ERROR"

\* a call ended with ARCHIVE_TIMEOUT after its creation step outran the
\* configured timeout
C24_Witness ==
    /\ apc = "done"
    /\ raised = "ArchiveTimeoutError"
    /\ took.create > settings.timeout_seconds
    /\ http_response = [status |-> 500, code |-> "ARCHIVE_TIMEOUT"]

IsPrefix(s, t) ==
    /\ Len(s) <= Len(t)
    /\ \A k \in 1..Len(s) : s[k] = t[k]

C26_ResolvesToArchiveIs ==
    resolved # "unset"
        => IF requested_service \in {"auto", "archive_is", "archive_today"}
           THEN resolved = "archive_is"
           ELSE resolved = requested_service

\* C27: a work unit enqueued while the loop is marked running but is already
\* winding down is still processed without a further scrape call: no caller
\* waits with its unit in the queue while no loop task is alive.
C27_NoStrandedUnit ==
    \A i \in Ids :
        (pc[i] = "waiting" /\ i \in Queued) => ActiveTasks # {}

CallsAtRest == \A i \in Ids : pc[i] \in {"idle", "done", "aborted"}

\* C28: whenever no scrape call is in progress and no handler is executing,
\* pending_requests is empty, also after a call that was aborted before it
\* reached its wait.
C28_PendingEmptyAtRest ==
    (CallsAtRest /\ InFlight = {}) => pending_requests = {}

\* C29: once the loop task has ended, by draining the queue, by crawler.run()
\* raising or by cancellation, the start condition of routes.py:61-63 holds,
\* and the next scrape call that reaches it creates a new loop task and sets
\* the flag: units are never left enqueued with no later call able to start
\* a loop.
C29_NextCallRestarts ==
    /\ [](ActiveTasks = {}
            => \/ ~crawler_running
               \/ (crawler_task # 0 /\ TaskDone(tasks[crawler_task])))
    /\ [][\A i \in Ids :
            (pc[i] = "added" /\ pc'[i] # "added" /\ ActiveTasks = {})
                => /\ crawler_running'
                   /\ crawler_task' # 0
                   /\ tasks'[crawler_task'] = "created"]_vars

\* a call has just created a new loop task for its queued unit after an
\* earlier loop, which had dispatched another unit, ended
C29_Witness ==
    /\ crawler_task # 0
    /\ tasks[crawler_task] = "created"
    /\ \E j \in Ids : hpc[j] # "none"
    /\ \E i \in Ids : pc[i] = "waiting" /\ i \in Queued

\* C30: crawler_running is true exactly when a loop task exists that has not
\* finished.
C30_FlagIffLiveTask ==
    crawler_running <=> ActiveTasks # {}

\* C31: every scrape call that has enqueued its request has a work unit of
\* its own, in the queue or with the handler, also when another call named
\* the same URL; the second call is neither merged with the first nor
\* dropped.
C31_OwnUnitPerCall ==
    \A i \in Ids :
        pc[i] \in {"added"} \cup PastStart
            => (i \in Queued \/ hpc[i] # "none")

\* C32: no step of the engine or of request_handler removes bookkeeping: it
\* leaves pending_requests as it is and changes requests_to_results only by
\* storing a result under the unit's own id; an id leaves either map only in
\* the cleanup of the scrape call that waited for it.
C32_OnlyWaiterRemoves ==
    [][\A i \in Ids :
        /\ hpc'[i] # hpc[i]
            => /\ pending_requests' = pending_requests
               /\ \A j \in Ids :
                    requests_to_results'[j] # requests_to_results[j]
                        => (j = i /\ requests_to_results'[j] # NoResult)
        /\ (\/ (i \in pending_requests /\ i \notin pending_requests')
            \/ (requests_to_results[i] # NoResult
                    /\ requests_to_results'[i] = NoResult))
            => (pc[i] \in {"waiting", "timedout"} /\ pc'[i] = "done")]_vars

\* the handler has stored an error result and resolved the future, and both
\* entries are still there because the waiting call has not resumed
C32_Witness ==
    \E i \in Ids :
        /\ hpc[i] = "returned"
        /\ pc[i] = "waiting"
        /\ i \in pending_requests
        /\ future[i].state = "resolved"
        /\ requests_to_results[i].status = 500

\* C33: a requested field that has a built-in fallback list is stored empty
\* only after every selector of that list was read and none gave non-blank
\* text; in particular the list is tried when the user selector matched an
\* element whose text is only whitespace.
C33_EmptyOnlyAfterAllFallbacks ==
    \A f \in DOMAIN data :
        (Lower(f) \in DOMAIN fallbacks /\ data[f] = EmptyText)
            => LET fb == fallbacks[Lower(f)] IN
               \A k \in 1..Len(fb) :
                   \E n \in 1..Len(reads[f]) :
                       reads[f][n].sel = fb[k] /\ ~reads[f][n].text

\* C34: meta.duration_ms of the response of a scrape call is never negative,
\* whatever integer the request carries as timeout_ms.
C34_DurationNonNegative ==
    reported.set => reported.duration_ms >= 0

InBody == {c \in Callers : lpc[c] \in {"locked", "sleeping"}}

\* C35: callers of wait_if_needed on one limiter are served one at a time:
\* at most one caller is between taking the lock and stamping
\* last_request_time, and it is the holder of the lock; and every caller
\* that has entered returns unless it is cancelled.
C35_OneAtATimeAndAllReturn ==
    /\ [](/\ Cardinality(InBody) <= 1
          /\ \A c \in InBody : lock_holder = c)
    /\ \A c \in Callers :
          (lpc[c] # "idle") ~> (lpc[c] \in {"returned", "cancelled"})

\* after a first grant one caller sleeps with the lock while another queues
\* for it
C35_Witness ==
    \E a, c, d \in Callers :
        /\ lpc[a] = "returned"
        /\ lpc[c] = "sleeping"
        /\ lock_holder = c
        /\ lock_waiters = <<d>>
        /\ lpc[d] = "acquiring"

\* C36: a caller cancelled during its sleep in wait_if_needed gives the lock
\* up, to the first queued caller if there is one, and leaves
\* last_request_time as it was.
C36_CancelledSleeperLetsGo ==
    [][\A c \in Callers :
        (lpc[c] = "sleeping" /\ lpc'[c] = "cancelled")
            => /\ last_request_time' = last_request_time
               /\ granted_at' = granted_at
               /\ lock_holder' # c
               /\ lock_holder' = IF lock_waiters = <<>>
                                 THEN 0 ELSE Head(lock_waiters)]_vars

\* a caller was cancelled in its sleep and a later caller was granted, its
\* wait measured from the grant before the cancelled call
C36_Witness ==
    \E a, c, d \in Callers :
        /\ lpc[a] = "returned"
        /\ lpc[c] = "cancelled" /\ observed[c].slept > 0
        /\ lpc[d] = "returned"
        /\ observed[d].at > observed[c].at
        /\ observed[d].prev = granted_at[a]
        /\ granted_at[d] < wake_at[c] + min_interval

\* C37: under every configuration Settings.validate accepts, the HTML fetch
\* of archive_url runs with a budget above zero, min(30, timeout // 2) > 0,
\* and a fetch that answers at once does not end in ArchiveTimeoutError.
C37_FetchBudgetPositive ==
    took.fetch # NoTime
        => /\ FetchBudget(settings.timeout_seconds) > 0
           /\ took.fetch = 0
                => archive_result.kind # "ArchiveTimeoutError"

\* C38: a POST /article request that names no archive service, and so runs
\* with the configured default, is never refused by the archive step as an
\* unsupported service, whichever default Settings.validate accepted.
C38_DefaultServiceSupported ==
    (article_request.archive_service = "None" /\ Len(calls) >= 2)
        => /\ archive_service \in {"archive_is", "archive_today"}
           /\ ~(/\ archive_result.kind = "ArchiveFailureError"
                /\ took.create = NoTime)

\* C39: the shutdown part of lifespan() ends without raising whatever the
\* loop task is doing: there is none, it is still running, it returned, or
\* it ended with the exception crawler.run() raised; and when it has ended
\* no loop task is left unfinished.
C39_ShutdownNeverRaises ==
    /\ shutdown # "raised"
    /\ shutdown = "completed"
        => (crawler_task = 0 \/ TaskDone(tasks[crawler_task]))

====
